---- MODULE Spec2Model ----
(***************************************************************************)
(* Model of src/src/promise.rs: the bridge between engine promises and     *)
(* host futures.                                                           *)
(*   Promise<T>   (EngineAwaitable)   : from_js subscribes two callbacks   *)
(*                 to a thenable; poll takes the result or stores a waker. *)
(*   State<T>     (SharedCompletionState): result, waker, resolve.         *)
(*   PromiseJs<T> (HostPromiseAdapter): into_js creates a promise triple,  *)
(*                 spawns a task that awaits the host future and then      *)
(*                 delivers the outcome under the runtime lock.            *)
(*   resolve      : immediate call, or deferred through the job queue.     *)
(***************************************************************************)
EXTENDS Integers, Sequences, FiniteSets, TLC

(* ---------------------------------------------------------------------- *)
(* Bounds and finite domains                                               *)
(* ---------------------------------------------------------------------- *)

\* Number of callback invocations a script-defined thenable may make.
MaxCalls == 3

\* The spawned adapter tasks, and the wake handles the executor hands to poll.
Tasks == {"A", "B"}
Wakers == {"w1", "w2"}

(* ---------------------------------------------------------------------- *)
(* Values                                                                  *)
(* ---------------------------------------------------------------------- *)

\* Engine (script) values.
JsInt(n) == [t |-> "int", n |-> n, s |-> ""]
JsStr(s) == [t |-> "string", n |-> 0, s |-> s]
JsError(s) == [t |-> "error", n |-> 0, s |-> s]
JsUndefined == [t |-> "undefined", n |-> 0, s |-> ""]

\* Host values of type Result<i32>, and the absent Option.
Ok(n) == [tag |-> "Ok", n |-> n, kind |-> "", msg |-> ""]
Err(kind, msg) == [tag |-> "Err", n |-> 0, kind |-> kind, msg |-> msg]
NoOutcome == [tag |-> "None", n |-> 0, kind |-> "", msg |-> ""]

\* What Promise::poll returned last.
NotPolled == [p |-> "None", out |-> NoOutcome]
Pending == [p |-> "Pending", out |-> NoOutcome]
Ready(r) == [p |-> "Ready", out |-> r]

NoWaker == "none"

\* A host value that has no engine representation.
Unconvertible == [tag |-> "Unconvertible", n |-> 0, kind |-> "", msg |-> ""]

\* The host computation of the test, and the outcomes a host future may have.
Mul2(a, b) == a * b
HostOutputs == {Ok(Mul2(2, 3)), Err("Exception", "boom"), Unconvertible}

\* Values handed to Promise::from_js: whether the value is an object, whether
\* it has a callable then, and whether calling that then throws.
FromJsArg(object, callable, throws) ==
    [object |-> object, callable |-> callable, throws |-> throws]
PromiseArg == FromJsArg(TRUE, TRUE, FALSE)
FromJsArgs ==
    {FromJsArg(FALSE, FALSE, FALSE), FromJsArg(TRUE, FALSE, FALSE),
     FromJsArg(TRUE, TRUE, TRUE), PromiseArg}

\* Values a script thenable may pass to the callbacks.
ScriptValues == {JsInt(6), JsStr("boom")}

(* ---------------------------------------------------------------------- *)
(* Conversions between host and engine values                              *)
(* ---------------------------------------------------------------------- *)

\* T::from_js for T = i32.
FromJsT(val) ==
    IF val.t = "int" THEN Ok(val.n) ELSE Err("FromJs", val.t)

\* Err(error) for the Error argument of the onError callback, which is built
\* from the engine value and carries it.
ErrorFromJs(val) ==
    IF val.t = "int" THEN Err("Exception", "int") ELSE Err("Exception", val.s)

\* result.into_js(ctx) for the future's output: [ok, value] or [ok, error].
ResultIntoJs(out) ==
    IF out.tag = "Ok"
    THEN [ok |-> TRUE, value |-> JsInt(out.n), error |-> NoOutcome]
    ELSE IF out.tag = "Unconvertible"
    THEN [ok |-> FALSE, value |-> JsUndefined, error |-> Err("IntoJs", "unconvertible")]
    ELSE [ok |-> FALSE, value |-> JsUndefined, error |-> out]

\* error.into_js(ctx): an engine error object carrying the message.
ErrorIntoJs(e) == JsError(e.msg)

(* ---------------------------------------------------------------------- *)
(* State                                                                   *)
(* ---------------------------------------------------------------------- *)

VARIABLES
    strategy,     \* "immediate" or "deferred": the build's resolution strategy
    rt_lock,      \* holder of runtime.inner: "free", "host", or a task
    task,         \* [Tasks -> [pc, output]]: the spawned task of each adapter;
                  \* pc 0: not spawned, pc i: about to run TaskProgram[i]
    handles,      \* [Tasks -> SUBSET {"then","catch"}]: Persistent handles held
    promise,      \* [Tasks -> [st, value, subscribed]]: the engine promise
    delivered,    \* [Tasks -> Seq(func)]: resolve() calls made by the task
    invoked,      \* [Tasks -> Seq(func)]: resolve/reject functions actually called
    jobs,         \* the engine's job queue
    enqueued,     \* tasks in the order their resolution jobs were enqueued
    visible,      \* tasks in the order their resolutions reached script
    source,       \* what the Promise<T> subscribed to: "none", "thenable", a task
    state,        \* State<T>: [result, waker]
    polled,       \* return value of the last Promise::poll
    received,     \* the outcomes polls have returned with Ready
    wakes,        \* [Wakers -> Nat]: times each wake handle was invoked
    scheduled,    \* wake handles whose task the executor will poll again
    callsLeft,    \* callback invocations the thenable may still make
    resolveCount, \* number of State::resolve calls so far
    firstOutcome, \* argument of the first State::resolve call
    wakerLate,    \* the stored waker was registered after the first resolve
    lateWoken,    \* a resolve invoked a waker registered after the first resolve
    wokenOutcome, \* outcome stored by the resolve that woke the poller
    taken,        \* a poll returned Ready and no resolve was called since
    pollCheck,    \* what the last poll followed, its handle, and what it returned
    aborted,      \* the spawned tasks the executor dropped before completion
    logged,       \* [Tasks -> Nat]: failed resolve calls reported by eprintln
    st_lock,      \* holder of the state mutex: "free", "poll" or "host"
    poller,       \* [pc, w]: the thread inside Promise::poll; pc 0: not in poll,
                  \* pc i: about to take PollLocks[i], past the last: in the section
    caller,       \* [pc, cb, val]: the engine thread inside onSuccess / onError
    lockOrder,    \* pairs <<held, taken>>: a lock taken while another was held
    lastCall,     \* the callback the engine invoked last, and its argument
    overwritten,  \* wake handles that were stored and replaced by another
    completed,    \* tasks in the order their host computations completed
    fromJs        \* the last Promise::from_js call: its argument and its return

vars == <<strategy, rt_lock, task, handles, promise, delivered, invoked, jobs,
          enqueued, visible, source, state, polled, received, wakes, scheduled, callsLeft,
          resolveCount, firstOutcome, wakerLate, lateWoken, wokenOutcome,
          taken, pollCheck, lastCall, overwritten, completed,
          fromJs, aborted, logged, st_lock, poller, caller, lockOrder>>

lockVars == <<st_lock, poller, caller, lockOrder>>
adapterVars == <<task, handles, delivered, enqueued, completed, aborted, logged>>
engineVars == <<promise, invoked, visible, jobs>>
awaitVars == <<state, polled, received, wakes, scheduled, resolveCount, firstOutcome,
               wakerLate, lateWoken, wokenOutcome, taken, pollCheck, lastCall,
               overwritten>>

(* ---------------------------------------------------------------------- *)
(* State<T>                                                                *)
(* ---------------------------------------------------------------------- *)

\* A from_js that discards the result of calling then.
FromJsCheck_IgnoreThenFailure(arg) ==
    IF ~arg.object THEN [ok |-> FALSE, error |-> Err("FromJs", "object")]
    ELSE IF ~arg.callable THEN [ok |-> FALSE, error |-> Err("FromJs", "function")]
    ELSE [ok |-> TRUE, error |-> NoOutcome]

\* The three ? of Promise::from_js, in order: Object::from_js(value),
\* obj.get("then") as a Function, then.call(..).
FromJsCheck(arg) ==
    IF ~arg.object THEN [ok |-> FALSE, error |-> Err("FromJs", "object")]
    ELSE IF ~arg.callable THEN [ok |-> FALSE, error |-> Err("FromJs", "function")]
    ELSE IF arg.throws THEN [ok |-> FALSE, error |-> Err("Exception", "then")]
    ELSE [ok |-> TRUE, error |-> NoOutcome]

\* No from_js call yet.
NoFromJs ==
    [called |-> FALSE, arg |-> PromiseArg, ok |-> FALSE, error |-> NoOutcome]

FromJsCall(arg) ==
    [called |-> TRUE, arg |-> arg, ok |-> FromJsCheck(arg).ok,
     error |-> FromJsCheck(arg).error]

\* State::default: no result, no waker.
StateDefault == [result |-> NoOutcome, waker |-> NoWaker]

\* A resolve that wakes the stored handle by reference and leaves it stored.
StateResolve_KeepWaker(st, r) ==
    [state |-> [result |-> r, waker |-> st.waker], woken |-> st.waker]

\* State::resolve: store the result, take the waker and wake it.  Returns the
\* new state and the handle that was woken (NoWaker when none was stored).
StateResolve(st, r) ==
    [state |-> [result |-> r, waker |-> NoWaker], woken |-> st.waker]

\* A poll that stores its waker only when none is stored.
PollState_KeepFirst(st, w) ==
    IF st.result # NoOutcome
    THEN [state |-> [st EXCEPT !.result = NoOutcome], ret |-> Ready(st.result)]
    ELSE [state |-> [st EXCEPT !.waker = IF @ = NoWaker THEN w ELSE @],
          ret |-> Pending]

\* A poll that gives up on its second attempt and reports a timeout.
PollState_Timeout(st, w) ==
    IF st.result # NoOutcome
    THEN [state |-> [st EXCEPT !.result = NoOutcome], ret |-> Ready(st.result)]
    ELSE IF st.waker # NoWaker
    THEN [state |-> st, ret |-> Ready(Err("Timeout", ""))]
    ELSE [state |-> [st EXCEPT !.waker = w], ret |-> Pending]

\* A poll that always stores its waker and reads the result without taking it.
PollState_AlwaysRegister(st, w) ==
    IF st.result # NoOutcome
    THEN [state |-> [st EXCEPT !.waker = w], ret |-> Ready(st.result)]
    ELSE [state |-> [st EXCEPT !.waker = w], ret |-> Pending]

\* Promise::poll on the locked state: take the result, or store the waker.
PollState(st, w) ==
    IF st.result # NoOutcome
    THEN [state |-> [st EXCEPT !.result = NoOutcome], ret |-> Ready(st.result)]
    ELSE [state |-> [st EXCEPT !.waker = w], ret |-> Pending]

\* An onSuccess closure that resolves only when the conversion succeeds.
OnOk_SkipFailure(st, val) ==
    IF FromJsT(val).tag = "Ok" THEN StateResolve(st, FromJsT(val))
    ELSE [state |-> st, woken |-> NoWaker]

\* The onSuccess closure: resolve with the conversion of the value to T.
OnOk(st, val) == StateResolve(st, FromJsT(val))

\* An onError closure that sends its argument through the conversion to T.
OnErr_Convert(st, val) == StateResolve(st, FromJsT(val))

\* The onError closure: resolve with the error, no conversion to T.
OnErr(st, val) == StateResolve(st, ErrorFromJs(val))

\* One invocation of a subscribed callback by the engine.
InvokeCallback(cb, val) ==
    LET res == IF cb = "onSuccess" THEN OnOk(state, val) ELSE OnErr(state, val)
        r == res.state.result
        woke == res.woken # NoWaker
    IN  /\ state' = res.state
        /\ wakes' = IF woke THEN [wakes EXCEPT ![res.woken] = @ + 1] ELSE wakes
        /\ scheduled' = IF woke THEN scheduled \cup {res.woken} ELSE scheduled
        /\ resolveCount' = resolveCount + 1
        /\ firstOutcome' = IF resolveCount = 0 THEN r ELSE firstOutcome
        /\ lateWoken' = (lateWoken \/ (woke /\ wakerLate))
        /\ wakerLate' = IF res.state.waker = NoWaker THEN FALSE ELSE wakerLate
        /\ wokenOutcome' = IF woke THEN r ELSE wokenOutcome
        /\ taken' = FALSE
        /\ lastCall' = [cb |-> cb, val |-> val]
        /\ UNCHANGED <<polled, received, pollCheck, overwritten>>

(* ---------------------------------------------------------------------- *)
(* The engine: promises and the job queue                                  *)
(* ---------------------------------------------------------------------- *)

NoPromise == [st |-> "none", value |-> JsUndefined, subscribed |-> FALSE]
NewPromise == [st |-> "pending", value |-> JsUndefined, subscribed |-> FALSE]

ResolutionJob(t, func, value) ==
    [kind |-> "resolution", task |-> t, func |-> func, cb |-> "", value |-> value]
ReactionJob(cb, value) ==
    [kind |-> "reaction", task |-> "", func |-> "", cb |-> cb, value |-> value]

\* The promise's resolving functions: the first call settles it, later calls
\* are ignored.
Settle(p, func, value) ==
    IF p.st = "pending"
    THEN [p EXCEPT !.st = IF func = "then" THEN "fulfilled" ELSE "rejected",
                   !.value = value]
    ELSE p

\* The reaction a settled promise owes its subscriber.
Reaction(p) ==
    ReactionJob(IF p.st = "fulfilled" THEN "onSuccess" ELSE "onError", p.value)

\* Calling the resolve ("then") or reject ("catch") function of task t's
\* promise with value: settles the promise and queues the subscriber's
\* reaction.  eng is [promise, invoked, visible, jobs, enqueued, delivered,
\* logged, fail]; when eng.fail the call returns an error and has no effect
\* on the promise.
CallFunction(eng, t, func, value) ==
    LET p == eng.promise[t]
        q == Settle(p, func, value)
    IN  IF eng.fail
        THEN [eng EXCEPT !.invoked[t] = Append(@, func)]
        ELSE [eng EXCEPT !.promise[t] = q,
                         !.invoked[t] = Append(@, func),
                         !.visible = Append(@, t),
                         !.jobs = IF q # p /\ q.subscribed
                                  THEN Append(@, Reaction(q)) ELSE @]

(* ---------------------------------------------------------------------- *)
(* Resolution strategies                                                   *)
(* ---------------------------------------------------------------------- *)

\* An immediate resolve that calls the function again when the call failed.
ResolveImmediate_Retry(eng, t, func, value) ==
    LET r == CallFunction(eng, t, func, value)
    IN  IF eng.fail
        THEN [CallFunction(r, t, func, value) EXCEPT !.logged[t] = @ + 1]
        ELSE r

\* resolve without deferred-resolution: call the function at once; an Err
\* from the call is printed and dropped.
ResolveImmediate(eng, t, func, value) ==
    LET r == CallFunction(eng, t, func, value)
    IN  IF eng.fail THEN [r EXCEPT !.logged[t] = @ + 1] ELSE r

\* A deferred resolve whose job jumps the queue.
ResolveDeferred_Front(eng, t, func, value) ==
    [eng EXCEPT !.jobs = <<ResolutionJob(t, func, value)>> \o @,
                !.enqueued = Append(@, t)]

\* resolve with deferred-resolution: enqueue a job holding the function and
\* its argument at the tail of the engine's job queue.
ResolveDeferred(eng, t, func, value) ==
    [eng EXCEPT !.jobs = Append(@, ResolutionJob(t, func, value)),
                !.enqueued = Append(@, t)]

\* resolution_job: call argv[0] with the remaining arguments.
ResolutionJobRun(eng, job) == CallFunction(eng, job.task, job.func, job.value)

\* The resolve(ctx, func, value) the build selected.
Resolve(eng, t, func, value) ==
    LET e == [eng EXCEPT !.delivered[t] = Append(@, func)]
    IN  IF strategy = "immediate"
        THEN ResolveImmediate(e, t, func, value)
        ELSE ResolveDeferred(e, t, func, value)

(* ---------------------------------------------------------------------- *)
(* PromiseJs<T>::into_js and its spawned task                              *)
(* ---------------------------------------------------------------------- *)

\* A task body that takes the runtime lock before awaiting the future.
TaskProgram_LockFirst == <<"lock", "await", "deliver", "unlock">>

\* A task body that delivers a default outcome before awaiting the future.
TaskProgram_DeliverFirst == <<"lock", "deliver", "unlock", "await">>

\* The body of the spawned task, in program order: future.await, then
\* runtime.inner.lock(), then the match that delivers the outcome, then
\* mem::drop(rt_lock).
TaskProgram == <<"await", "lock", "deliver", "unlock">>

AtStep(t, step) ==
    /\ t \notin aborted
    /\ task[t].pc \in DOMAIN TaskProgram
    /\ TaskProgram[task[t].pc] = step

Done(t) == task[t].pc = Len(TaskProgram) + 1

PastStep(t, step) ==
    \E i \in DOMAIN TaskProgram : TaskProgram[i] = step /\ task[t].pc > i

\* An into_js that runs the computation to its end before returning.
IntoJsReturn_Blocking(t) ==
    [promise |-> [NewPromise EXCEPT !.st = "fulfilled", !.value = JsInt(Mul2(2, 3))],
     handles |-> {}, pc |-> Len(TaskProgram) + 1]

\* What into_js leaves behind when it returns: the promise of the triple, the
\* two persisted handles, and the spawned task at the start of its body.
IntoJsReturn(t) ==
    [promise |-> NewPromise, handles |-> {"then", "catch"}, pc |-> 1]

\* A match whose arms use the wrong handles.
TaskDeliveries_Swapped(out) ==
    LET conv == ResultIntoJs(out)
    IN  IF conv.ok
        THEN [drop |-> {"then"},
              calls |-> <<[func |-> "catch", value |-> conv.value]>>]
        ELSE [drop |-> {"catch"},
              calls |-> <<[func |-> "then", value |-> ErrorIntoJs(conv.error)]>>]

\* A match that does not drop the unused handle but calls it as well.
TaskDeliveries_Both(out) ==
    LET conv == ResultIntoJs(out)
        v == IF conv.ok THEN conv.value ELSE ErrorIntoJs(conv.error)
    IN  [drop |-> {},
         calls |-> <<[func |-> "then", value |-> v], [func |-> "catch", value |-> v]>>]

\* A match that keeps the handle it does not use.
TaskDeliveries_KeepUnused(out) ==
    LET conv == ResultIntoJs(out)
    IN  IF conv.ok
        THEN [drop |-> {}, calls |-> <<[func |-> "then", value |-> conv.value]>>]
        ELSE [drop |-> {},
              calls |-> <<[func |-> "catch", value |-> ErrorIntoJs(conv.error)]>>]

\* A match that drops both handles when the conversion fails.
TaskDeliveries_DropOnFail(out) ==
    LET conv == ResultIntoJs(out)
    IN  IF conv.ok
        THEN [drop |-> {"catch"},
              calls |-> <<[func |-> "then", value |-> conv.value]>>]
        ELSE [drop |-> {"then", "catch"}, calls |-> <<>>]

\* The match on result.into_js(ctx): the handle dropped unused and the
\* resolve(ctx, func, value) calls made, in order.
TaskDeliveries(out) ==
    LET conv == ResultIntoJs(out)
    IN  IF conv.ok
        THEN [drop |-> {"catch"},
              calls |-> <<[func |-> "then", value |-> conv.value]>>]
        ELSE [drop |-> {"then"},
              calls |-> <<[func |-> "catch", value |-> ErrorIntoJs(conv.error)]>>]

RECURSIVE ApplyDeliveries(_, _, _)
ApplyDeliveries(eng, t, calls) ==
    IF calls = <<>> THEN eng
    ELSE ApplyDeliveries(Resolve(eng, t, Head(calls).func, Head(calls).value),
                         t, Tail(calls))

Engine ==
    [promise |-> promise, invoked |-> invoked, visible |-> visible,
     jobs |-> jobs, enqueued |-> enqueued, delivered |-> delivered,
     logged |-> logged, fail |-> FALSE]

SetEngine(eng) ==
    /\ promise' = eng.promise
    /\ invoked' = eng.invoked
    /\ visible' = eng.visible
    /\ jobs' = eng.jobs
    /\ enqueued' = eng.enqueued
    /\ delivered' = eng.delivered
    /\ logged' = eng.logged

(* ---------------------------------------------------------------------- *)
(* Initial state                                                           *)
(* ---------------------------------------------------------------------- *)

NoCheck ==
    [afterWake |-> NoOutcome, afterReady |-> FALSE, waker |-> NoWaker,
     got |-> NotPolled]

NoCall == [cb |-> "", val |-> JsUndefined]

NoPoll == [pc |-> 0, w |-> NoWaker]
NoCaller == [pc |-> 0, cb |-> "", val |-> JsUndefined]

Init ==
    /\ strategy \in {"immediate", "deferred"}
    /\ rt_lock = "free"
    /\ task = [t \in Tasks |-> [pc |-> 0, output |-> NoOutcome]]
    /\ handles = [t \in Tasks |-> {}]
    /\ promise = [t \in Tasks |-> NoPromise]
    /\ delivered = [t \in Tasks |-> <<>>]
    /\ invoked = [t \in Tasks |-> <<>>]
    /\ jobs = <<>>
    /\ enqueued = <<>>
    /\ visible = <<>>
    /\ source = "none"
    /\ state = StateDefault
    /\ polled = NotPolled
    /\ received = {}
    /\ wakes = [w \in Wakers |-> 0]
    /\ scheduled = {}
    /\ callsLeft = MaxCalls
    /\ resolveCount = 0
    /\ firstOutcome = NoOutcome
    /\ wakerLate = FALSE
    /\ lateWoken = FALSE
    /\ wokenOutcome = NoOutcome
    /\ taken = FALSE
    /\ pollCheck = NoCheck
    /\ lastCall = NoCall
    /\ overwritten = {}
    /\ completed = <<>>
    /\ fromJs = NoFromJs
    /\ aborted = {}
    /\ logged = [t \in Tasks |-> 0]
    /\ st_lock = "free"
    /\ poller = NoPoll
    /\ caller = NoCaller
    /\ lockOrder = {}

(* ---------------------------------------------------------------------- *)
(* Actions                                                                 *)
(* ---------------------------------------------------------------------- *)

\* A host thread enters the engine (Context::with, or the job-draining loop)
\* by taking the runtime lock.
EngineEnter ==
    /\ rt_lock = "free"
    /\ rt_lock' = "host"
    /\ UNCHANGED <<lockVars, strategy, adapterVars, engineVars, source, awaitVars, callsLeft,
                   fromJs>>

EngineExit ==
    /\ rt_lock = "host"
    /\ caller = NoCaller
    /\ rt_lock' = "free"
    /\ UNCHANGED <<lockVars, strategy, adapterVars, engineVars, source, awaitVars, callsLeft,
                   fromJs>>

\* PromiseJs::into_js, called by script through a host function.
IntoJs(t) ==
    /\ rt_lock = "host"
    /\ task[t].pc = 0
    /\ LET r == IntoJsReturn(t)
       IN  /\ promise' = [promise EXCEPT ![t] = r.promise]
           /\ handles' = [handles EXCEPT ![t] = r.handles]
           /\ task' = [task EXCEPT ![t].pc = r.pc]
    /\ UNCHANGED <<lockVars, strategy, rt_lock, delivered, invoked, jobs, enqueued, visible,
                   source, awaitVars, callsLeft, completed, fromJs, aborted, logged>>

\* future.await returns in the spawned task.
Complete(t, out) ==
    /\ AtStep(t, "await")
    /\ task' = [task EXCEPT ![t] = [pc |-> @.pc + 1, output |-> out]]
    /\ completed' = Append(completed, t)
    /\ UNCHANGED <<lockVars, strategy, rt_lock, handles, delivered, enqueued, engineVars,
                   source, awaitVars, callsLeft, fromJs, aborted, logged>>

\* The executor drops the spawned task while it is suspended in future.await
\* (or before its first poll): the future and the two Persistent handles it
\* captured are dropped with it.
Abort(t) ==
    /\ AtStep(t, "await")
    /\ aborted' = aborted \cup {t}
    /\ handles' = [handles EXCEPT ![t] = {}]
    /\ UNCHANGED <<lockVars, strategy, rt_lock, task, delivered, enqueued, completed, logged,
                   engineVars, source, awaitVars, callsLeft, fromJs>>

\* runtime.inner.lock() in the spawned task.
Lock(t) ==
    /\ AtStep(t, "lock")
    /\ rt_lock = "free"
    /\ rt_lock' = t
    /\ task' = [task EXCEPT ![t].pc = @ + 1]
    /\ UNCHANGED <<lockVars, strategy, handles, delivered, enqueued, completed, engineVars,
                   source, awaitVars, callsLeft, fromJs, aborted, logged>>

\* The match on the converted outcome: drop one handle, restore the other and
\* pass it to resolve; fail tells whether the engine call made by resolve
\* returns an error.
DeliverStep(t, fail) ==
    /\ AtStep(t, "deliver")
    /\ LET d == TaskDeliveries(task[t].output)
       IN  /\ SetEngine(ApplyDeliveries([Engine EXCEPT !.fail = fail], t, d.calls))
           /\ handles' = [handles EXCEPT
                  ![t] = (@ \ d.drop) \ {d.calls[i].func : i \in DOMAIN d.calls}]
    /\ task' = [task EXCEPT ![t].pc = @ + 1]
    /\ UNCHANGED <<lockVars, strategy, rt_lock, source, awaitVars, callsLeft, completed,
                   fromJs, aborted>>

\* The match, with the engine call succeeding.
Deliver(t) == DeliverStep(t, FALSE)

\* The match under the immediate strategy, with func.call returning an error.
DeliverFailing(t) ==
    /\ strategy = "immediate"
    /\ DeliverStep(t, TRUE)

\* mem::drop(rt_lock), the end of the spawned task.
Unlock(t) ==
    /\ AtStep(t, "unlock")
    /\ rt_lock = t
    /\ rt_lock' = "free"
    /\ task' = [task EXCEPT ![t].pc = @ + 1]
    /\ UNCHANGED <<lockVars, strategy, handles, delivered, enqueued, completed, engineVars,
                   source, awaitVars, callsLeft, fromJs, aborted, logged>>

\* Promise::from_js on the promise of adapter t: then registers the two
\* callbacks; on a promise settled already the reaction is queued at once.
FromJsPromise(t, w) ==
    /\ rt_lock = "host"
    /\ source = "none"
    /\ promise[t].st # "none"
    /\ FromJsCheck(PromiseArg).ok
    /\ fromJs' = FromJsCall(PromiseArg)
    /\ source' = t
    /\ state' = StateDefault
    /\ scheduled' = {w}
    /\ promise' = [promise EXCEPT ![t].subscribed = TRUE]
    /\ jobs' = IF promise[t].st = "pending" THEN jobs
               ELSE Append(jobs, Reaction(promise[t]))
    /\ UNCHANGED <<lockVars, strategy, rt_lock, adapterVars, invoked, visible, polled, received,
                   wakes, resolveCount, firstOutcome, wakerLate, lateWoken, wokenOutcome,
                   taken, pollCheck, lastCall, overwritten, callsLeft>>

\* Promise::from_js on a script object with a callable then: the script
\* keeps the two callbacks.
FromJsThenable(arg, w) ==
    /\ rt_lock = "host"
    /\ source = "none"
    /\ FromJsCheck(arg).ok
    /\ fromJs' = FromJsCall(arg)
    /\ source' = "thenable"
    /\ state' = StateDefault
    /\ scheduled' = {w}
    /\ UNCHANGED <<lockVars, strategy, rt_lock, adapterVars, engineVars, polled, received,
                   wakes, resolveCount, firstOutcome, wakerLate, lateWoken, wokenOutcome,
                   taken, pollCheck, lastCall, overwritten, callsLeft>>

\* Promise::from_js returns an error at one of its three ?: no Promise<T> is
\* returned, and the State it may have allocated is dropped.
FromJsFail(arg) ==
    /\ rt_lock = "host"
    /\ source = "none"
    /\ ~FromJsCheck(arg).ok
    /\ fromJs' = FromJsCall(arg)
    /\ UNCHANGED <<lockVars, strategy, rt_lock, adapterVars, engineVars, source, awaitVars,
                   callsLeft>>

\* Script code of the thenable calls one of the callbacks it was given.
ThenableCall(cb, val) ==
    /\ rt_lock = "host"
    /\ source = "thenable"
    /\ callsLeft > 0
    /\ callsLeft' = callsLeft - 1
    /\ InvokeCallback(cb, val)
    /\ UNCHANGED <<lockVars, strategy, rt_lock, adapterVars, engineVars, source, fromJs>>

\* The job-draining loop runs the job at the head of the queue.
RunJob ==
    /\ rt_lock = "host"
    /\ jobs # <<>>
    /\ LET job == Head(jobs)
           eng == [Engine EXCEPT !.jobs = Tail(jobs)]
       IN  IF job.kind = "resolution"
           THEN /\ SetEngine(ResolutionJobRun(eng, job))
                /\ UNCHANGED awaitVars
           ELSE /\ SetEngine(eng)
                /\ InvokeCallback(job.cb, job.value)
    /\ UNCHANGED <<lockVars, strategy, rt_lock, task, handles, completed, source, callsLeft,
                   fromJs, aborted>>

\* The section of Promise::poll under the state lock, with wake handle w.
PollStep(w) ==
    /\ LET res == PollState(state, w)
       IN  /\ state' = res.state
           /\ polled' = res.ret
           /\ received' = IF res.ret = Pending THEN received
                          ELSE received \cup {res.ret.out}
           /\ wakerLate' = IF res.ret = Pending THEN resolveCount >= 1 ELSE wakerLate
           /\ taken' = IF res.ret = Pending THEN taken ELSE TRUE
           /\ pollCheck' = [afterWake |-> wokenOutcome, afterReady |-> taken,
                            waker |-> w, got |-> res.ret]
           /\ overwritten' =
                  IF state.waker # NoWaker /\ res.state.waker # state.waker
                  THEN overwritten \cup {state.waker} ELSE overwritten
    /\ wokenOutcome' = NoOutcome
    /\ scheduled' = scheduled \ {w}
    /\ UNCHANGED <<strategy, adapterVars, engineVars, source, wakes,
                   resolveCount, firstOutcome, lateWoken, lastCall, callsLeft, fromJs>>

\* The executor polls the Promise<T> with wake handle w.
Poll(w) ==
    /\ source # "none"
    /\ PollStep(w)
    /\ UNCHANGED <<lockVars, rt_lock>>

(* ---------------------------------------------------------------------- *)
(* Promise::poll and the callbacks, with the state mutex made explicit     *)
(* ---------------------------------------------------------------------- *)

\* A poll that enters the engine while it holds the state lock.
PollLocks_EngineInside == <<"state", "engine">>

\* The locks Promise::poll takes before its section, in order.
PollLocks == <<"state">>

\* The locks onSuccess / onError take before calling State::resolve; the
\* engine lock is held by the thread that runs the script.
CallbackLocks == <<"state">>

\* The locks thread th holds.
Held(th) ==
    (IF st_lock = th THEN {"state"} ELSE {}) \cup
    (IF rt_lock = th THEN {"engine"} ELSE {})

\* Thread th takes lock l, blocking while another thread holds it.
Acquire(th, l) ==
    /\ IF l = "state"
       THEN st_lock = "free" /\ st_lock' = th /\ UNCHANGED rt_lock
       ELSE rt_lock = "free" /\ rt_lock' = th /\ UNCHANGED st_lock
    /\ lockOrder' = lockOrder \cup {<<h, l>> : h \in Held(th)}

\* Thread th drops the guards it took inside poll.
ReleaseGuards(th) ==
    /\ st_lock' = IF st_lock = th THEN "free" ELSE st_lock
    /\ rt_lock' = IF rt_lock = th THEN "free" ELSE rt_lock

\* The executor calls Promise::poll with wake handle w.
PollCall(w) ==
    /\ source # "none"
    /\ poller = NoPoll
    /\ poller' = [pc |-> 1, w |-> w]
    /\ UNCHANGED <<strategy, rt_lock, adapterVars, engineVars, source, awaitVars,
                   callsLeft, fromJs, st_lock, caller, lockOrder>>

\* self.state.lock() in poll.
PollAcquire ==
    /\ poller.pc \in DOMAIN PollLocks
    /\ Acquire("poll", PollLocks[poller.pc])
    /\ poller' = [poller EXCEPT !.pc = @ + 1]
    /\ UNCHANGED <<strategy, adapterVars, engineVars, source, awaitVars,
                   callsLeft, fromJs, caller>>

\* The rest of poll: take the result or store the waker, and drop the guard.
PollSection ==
    /\ poller.pc = Len(PollLocks) + 1
    /\ PollStep(poller.w)
    /\ ReleaseGuards("poll")
    /\ poller' = NoPoll
    /\ UNCHANGED <<caller, lockOrder>>

\* Script code of the thenable calls one of the callbacks it was given.
CallbackCall(cb, val) ==
    /\ rt_lock = "host"
    /\ source = "thenable"
    /\ callsLeft > 0
    /\ caller = NoCaller
    /\ callsLeft' = callsLeft - 1
    /\ caller' = [pc |-> 1, cb |-> cb, val |-> val]
    /\ UNCHANGED <<strategy, rt_lock, adapterVars, engineVars, source, awaitVars,
                   fromJs, st_lock, poller, lockOrder>>

\* state.lock() in the callback.
CallbackAcquire ==
    /\ caller.pc \in DOMAIN CallbackLocks
    /\ Acquire("host", CallbackLocks[caller.pc])
    /\ caller' = [caller EXCEPT !.pc = @ + 1]
    /\ UNCHANGED <<strategy, adapterVars, engineVars, source, awaitVars,
                   callsLeft, fromJs, poller>>

\* state.resolve(..) in the callback, and the drop of the guard.
CallbackSection ==
    /\ caller.pc = Len(CallbackLocks) + 1
    /\ InvokeCallback(caller.cb, caller.val)
    /\ st_lock' = "free"
    /\ caller' = NoCaller
    /\ UNCHANGED <<strategy, rt_lock, adapterVars, engineVars, source, callsLeft,
                   fromJs, poller, lockOrder>>

\* The bridge: adapters, their promises, the job queue, and a Promise<T>
\* awaiting one of those promises.
BridgeNext ==
    \/ EngineEnter
    \/ EngineExit
    \/ \E t \in Tasks : IntoJs(t)
    \/ \E t \in Tasks, out \in HostOutputs : Complete(t, out)
    \/ \E t \in Tasks : Lock(t)
    \/ \E t \in Tasks : Deliver(t)
    \/ \E t \in Tasks : Unlock(t)
    \/ \E t \in Tasks, w \in Wakers : FromJsPromise(t, w)
    \/ RunJob
    \/ \E w \in Wakers : Poll(w)

\* A Promise<T> awaiting a script-defined thenable, which may call the two
\* callbacks in any order and any number of times.
ThenableNext ==
    \/ EngineEnter
    \/ EngineExit
    \/ \E arg \in FromJsArgs, w \in Wakers : FromJsThenable(arg, w)
    \/ \E arg \in FromJsArgs : FromJsFail(arg)
    \/ \E cb \in {"onSuccess", "onError"}, val \in ScriptValues : ThenableCall(cb, val)
    \/ \E w \in Wakers : Poll(w)

\* The bridge with its faults: a task dropped before it completes, and a
\* resolve whose engine call fails.
FaultNext ==
    \/ BridgeNext
    \/ \E t \in Tasks : Abort(t)
    \/ \E t \in Tasks : DeliverFailing(t)

\* The value the thenable passes to the callbacks where only the locking
\* is of interest.
LockValues == {JsInt(6)}

\* A Promise<T> awaiting a script-defined thenable, with the executor's
\* polls and the engine's callbacks interleaved at the state mutex.
LockNext ==
    \/ EngineEnter
    \/ EngineExit
    \/ \E w \in Wakers : FromJsThenable(PromiseArg, w)
    \/ \E w \in Wakers : PollCall(w)
    \/ PollAcquire
    \/ PollSection
    \/ \E cb \in {"onSuccess", "onError"}, val \in LockValues : CallbackCall(cb, val)
    \/ CallbackAcquire
    \/ CallbackSection

Next == FaultNext \/ ThenableNext \/ LockNext

Spec == Init /\ [][Next]_vars
BridgeSpec == Init /\ [][BridgeNext]_vars
ThenableSpec == Init /\ [][ThenableNext]_vars
FaultSpec == Init /\ [][FaultNext]_vars
LockSpec == Init /\ [][LockNext]_vars

(* ---------------------------------------------------------------------- *)
(* Properties of State<T> and Promise::poll                                *)
(* ---------------------------------------------------------------------- *)

\* C1: a resolve after an earlier resolve never overwrites the stored
\* outcome, and the outcome a poller receives is that of the first resolve:
\* once resolve was called, the stored result is absent or the first
\* outcome, and a Ready poll carries the first outcome.
C1_SingleResolution ==
    resolveCount >= 1 =>
        /\ state.result \in {NoOutcome, firstOutcome}
        /\ (polled.p = "Ready" => polled.out = firstOutcome)

\* C2: a wake handle registered by a poll that came after the first resolve
\* is never invoked by a later resolve.
C2_NoLateWake == ~lateWoken

\* C3: a resolve that finds wake handle W stored invokes exactly W, exactly
\* once, in the step that stores the result, and clears the stored handle.
C3_WakeOnResolve ==
    [][(resolveCount' = resolveCount + 1 /\ state.waker # NoWaker) =>
          /\ wakes' = [wakes EXCEPT ![state.waker] = @ + 1]
          /\ state'.waker = NoWaker
          /\ state'.result # NoOutcome]_vars

\* A resolve found w1 registered, woke it once and cleared it.
C3_Witness ==
    /\ resolveCount = 1
    /\ wakes["w1"] = 1
    /\ wakes["w2"] = 0
    /\ state.waker = NoWaker
    /\ state.result # NoOutcome
    /\ polled = Pending

\* C4: the poll that follows a resolve which stored an outcome and woke the
\* poller returns Ready with that outcome; a poll that follows a Ready poll,
\* with no resolve in between, returns Pending.
C4_PollThenReady ==
    /\ pollCheck.afterWake # NoOutcome => pollCheck.got = Ready(pollCheck.afterWake)
    /\ pollCheck.afterReady => pollCheck.got = Pending

(* ---------------------------------------------------------------------- *)
(* Fairness: the host computation completes, the executor runs the spawned *)
(* tasks and polls a woken Promise<T> again, the runtime lock is handed    *)
(* over, and the job queue keeps being drained.                            *)
(* ---------------------------------------------------------------------- *)

PollWoken(w) == w \in scheduled /\ Poll(w)

BridgeFairness ==
    /\ \A t \in Tasks : WF_vars(\E out \in HostOutputs : Complete(t, out))
    /\ \A t \in Tasks : SF_vars(Lock(t))
    /\ \A t \in Tasks : WF_vars(Deliver(t))
    /\ \A t \in Tasks : WF_vars(Unlock(t))
    /\ WF_vars(EngineEnter)
    /\ WF_vars(EngineExit)
    /\ SF_vars(RunJob)
    /\ \A w \in Wakers : WF_vars(PollWoken(w))

BridgeFairSpec == BridgeSpec /\ BridgeFairness

PollWokenCall(w) == w \in scheduled /\ PollCall(w)

\* The mutexes are handed over to a thread that keeps waiting, a thread
\* that holds a lock runs on, and the executor polls a woken task again.
LockFairness ==
    /\ SF_vars(PollAcquire)
    /\ WF_vars(PollSection)
    /\ SF_vars(CallbackAcquire)
    /\ WF_vars(CallbackSection)
    /\ \A w \in Wakers : SF_vars(PollWokenCall(w))

LockFairSpec == LockSpec /\ LockFairness

(* ---------------------------------------------------------------------- *)
(* Properties of the bridge                                                *)
(* ---------------------------------------------------------------------- *)

IsPrefix(a, b) == Len(a) <= Len(b) /\ SubSeq(b, 1, Len(a)) = a

\* The Promise<T> awaits the promise of adapter t, whose host computation
\* completed with out.
RoundTrip(t, out) == source = t /\ task[t].output = out

\* C5: when the host computation completes with value v and its promise is
\* awaited through Promise<T>, the awaitable never completes with anything
\* but Ok(v), and under fair scheduling it eventually completes with Ok(v).
C5_RoundTrip ==
    /\ [](\A t \in Tasks :
            RoundTrip(t, Ok(Mul2(2, 3))) => received \subseteq {Ok(Mul2(2, 3))})
    /\ \A t \in Tasks :
            RoundTrip(t, Ok(Mul2(2, 3))) ~> (Ok(Mul2(2, 3)) \in received)

\* mul2(2, 3) went round: the awaitable returned Ready(Ok(6)).
C5_Witness ==
    /\ RoundTrip("A", Ok(6))
    /\ polled = Ready(Ok(6))
    /\ invoked["A"] = <<"then">>

\* C6: when the awaited engine promise rejects with error value e, only the
\* error callback is queued or run, the state is resolved with Err(e) and
\* not with a conversion to T, and every completion carries Err(e).
C6_ErrorPropagation ==
    \A t \in Tasks :
        (source = t /\ promise[t].st = "rejected") =>
            /\ \A i \in DOMAIN jobs :
                   jobs[i].kind = "reaction" => jobs[i].cb = "onError"
            /\ state.result \in {NoOutcome, ErrorFromJs(promise[t].value)}
            /\ received \subseteq {ErrorFromJs(promise[t].value)}
            /\ resolveCount <= 1

\* The promise rejected with "boom" and the awaitable completed with it.
C6_Witness ==
    /\ source = "A"
    /\ promise["A"] = [st |-> "rejected", value |-> JsError("boom"), subscribed |-> TRUE]
    /\ polled = Ready(Err("Exception", "boom"))

\* C7: the step in which into_js runs leaves the promise pending and the
\* task spawned but not run: the computation is not awaited, the lock is
\* not touched, and neither function is called or enqueued.
C7_ReturnsImmediately ==
    [][\A t \in Tasks :
          (task[t].pc = 0 /\ task'[t].pc # 0) =>
              /\ promise'[t].st = "pending"
              /\ task'[t] = [pc |-> 1, output |-> NoOutcome]
              /\ handles'[t] = {"then", "catch"}
              /\ delivered'[t] = <<>>
              /\ invoked'[t] = <<>>
              /\ jobs' = jobs
              /\ rt_lock' = rt_lock]_vars

\* into_js for A has returned: its promise is pending, its computation has
\* not completed, and the caller still runs in the engine.
C7_Witness ==
    /\ promise["A"].st = "pending"
    /\ task["A"] = [pc |-> 1, output |-> NoOutcome]
    /\ rt_lock = "host"
    /\ task["B"].pc = 0

\* C8: a task makes at most one resolve call and its functions are called
\* at most once in all; once it is past the match it has made exactly one,
\* with the function that matches the outcome; under the immediate strategy
\* the call has happened by then, under the deferred strategy the job is
\* queued or has run.
C8_ExactlyOnce ==
    \A t \in Tasks :
        /\ Len(delivered[t]) <= 1
        /\ Len(invoked[t]) <= 1
        /\ IsPrefix(invoked[t], delivered[t])
        /\ PastStep(t, "deliver") =>
               /\ delivered[t] =
                      <<IF task[t].output.tag = "Ok" THEN "then" ELSE "catch">>
               /\ strategy = "immediate" => invoked[t] = delivered[t]
               /\ strategy = "deferred" =>
                      \/ invoked[t] = delivered[t]
                      \/ Cardinality({i \in DOMAIN jobs :
                             jobs[i].kind = "resolution" /\ jobs[i].task = t}) = 1

\* Both tasks ended under the deferred strategy, one resolved and one
\* rejected, and both jobs have run.
C8_Witness ==
    /\ strategy = "deferred"
    /\ Done("A") /\ Done("B")
    /\ invoked["A"] = <<"then">>
    /\ invoked["B"] = <<"catch">>

\* C9: a task holds the runtime lock exactly from its lock step to its
\* unlock step, so never while its computation is pending.
C9_LockOnlyAroundDelivery ==
    \A t \in Tasks :
        /\ (rt_lock = t) <=> (AtStep(t, "deliver") \/ AtStep(t, "unlock"))
        /\ (task[t].output = NoOutcome) => rt_lock # t

\* While A's computation is pending, B took the lock for its delivery and
\* released it, and the host is in the engine.
C9_Witness ==
    /\ AtStep("A", "await")
    /\ task["A"].output = NoOutcome
    /\ Done("B")
    /\ rt_lock = "host"

\* C10: under the deferred strategy resolutions reach script in the order
\* their jobs were enqueued.
C10_DeferredOrdering ==
    strategy = "deferred" => IsPrefix(visible, enqueued)

\* B's computation finished first, A's job was enqueued first, and script
\* saw A's resolution before B's.
C10_Witness ==
    /\ strategy = "deferred"
    /\ completed = <<"B", "A">>
    /\ enqueued = <<"A", "B">>
    /\ visible = <<"A", "B">>

(* ---------------------------------------------------------------------- *)
(* Properties of the spawned task's delivery                               *)
(* ---------------------------------------------------------------------- *)

\* The resolution jobs of task t still in the queue.
QueuedFor(t) ==
    {i \in DOMAIN jobs : jobs[i].kind = "resolution" /\ jobs[i].task = t}

\* C11: when the conversion of the outcome fails, the task, once past its
\* match, has passed the failure as an engine error value to the reject
\* function, once, and has released the resolve function without calling
\* or enqueuing it; a task that ended has made a delivery.
C11_ConversionFailureRejects ==
    \A t \in Tasks :
        /\ (PastStep(t, "deliver") /\ ~ResultIntoJs(task[t].output).ok) =>
               LET e == JsError(ResultIntoJs(task[t].output).error.msg)
               IN  /\ delivered[t] = <<"catch">>
                   /\ "then" \notin handles[t]
                   /\ \A i \in DOMAIN invoked[t] : invoked[t][i] = "catch"
                   /\ \/ promise[t].st = "rejected" /\ promise[t].value = e
                      \/ /\ strategy = "deferred"
                         /\ promise[t].st = "pending"
                         /\ \E i \in QueuedFor(t) :
                                jobs[i].func = "catch" /\ jobs[i].value = e
        /\ Done(t) => Len(delivered[t]) = 1

\* A's outcome could not be converted; A ended and its promise is rejected
\* with the conversion error.
C11_Witness ==
    /\ Done("A")
    /\ task["A"].output = Unconvertible
    /\ promise["A"].st = "rejected"
    /\ promise["A"].value = JsError("unconvertible")
    /\ invoked["A"] = <<"catch">>

(* ---------------------------------------------------------------------- *)
(* Properties of Promise::from_js, the callbacks and Promise::poll         *)
(* ---------------------------------------------------------------------- *)

\* C12: from_js returns an error exactly when the value is not an object,
\* has no callable then, or its then throws; while no Promise<T> has been
\* returned nothing is polled, woken or resolved; a Promise<T> exists only
\* after a from_js call that invoked then successfully.
C12_ConstructionFailure ==
    /\ fromJs.called =>
           /\ fromJs.ok <=>
                  (fromJs.arg.object /\ fromJs.arg.callable /\ ~fromJs.arg.throws)
           /\ ~fromJs.ok => fromJs.error.tag = "Err"
           /\ fromJs.ok <=> (source # "none")
    /\ (source # "none") => fromJs.called
    /\ (source = "none") =>
           /\ polled = NotPolled
           /\ state = StateDefault
           /\ resolveCount = 0
           /\ scheduled = {}
           /\ \A w \in Wakers : wakes[w] = 0

\* from_js was called on an object whose then throws: it returned the error
\* and there is no Promise<T>.
C12_Witness ==
    /\ fromJs.called
    /\ fromJs.arg = FromJsArg(TRUE, TRUE, TRUE)
    /\ fromJs.error = Err("Exception", "then")
    /\ source = "none"

\* C13: when onSuccess is invoked with a value that does not convert to T,
\* that step stores the conversion error as the result and wakes the stored
\* handle; the state is not left without a result.
C13_ConversionFailureStored ==
    [][(resolveCount' # resolveCount \/ lastCall' # lastCall) =>
          ((lastCall'.cb = "onSuccess" /\ lastCall'.val.t # "int") =>
              /\ resolveCount' = resolveCount + 1
              /\ state'.result = Err("FromJs", lastCall'.val.t)
              /\ state'.waker = NoWaker
              /\ state.waker # NoWaker =>
                     /\ wakes'[state.waker] = wakes[state.waker] + 1
                     /\ state.waker \in scheduled')]_vars

\* onSuccess("boom") woke w1 and the poll returned the conversion error.
C13_Witness ==
    /\ lastCall = [cb |-> "onSuccess", val |-> JsStr("boom")]
    /\ resolveCount = 1
    /\ wakes["w1"] = 1
    /\ polled = Ready(Err("FromJs", "string"))

\* C14: a poll that returns Pending leaves exactly its own handle stored,
\* in place of any handle stored before; a resolve wakes no handle but the
\* one the last poll registered.
C14_WakerReplaced ==
    [][/\ (pollCheck' # pollCheck /\ pollCheck'.got = Pending) =>
              /\ state.result = NoOutcome
              /\ state' = [result |-> NoOutcome, waker |-> pollCheck'.waker]
       /\ (resolveCount' # resolveCount) =>
              \A w \in Wakers :
                  wakes'[w] # wakes[w] =>
                      /\ pollCheck.got = Pending
                      /\ w = pollCheck.waker
                      /\ wakes'[w] = wakes[w] + 1]_vars

\* w1 was registered, then replaced by w2; the resolve woke w2 only.
C14_Witness ==
    /\ overwritten = {"w1"}
    /\ pollCheck.waker = "w2"
    /\ resolveCount = 1
    /\ wakes = [w \in Wakers |-> IF w = "w2" THEN 1 ELSE 0]

\* C15: a poll returns Ready only after a callback has called resolve: as
\* long as no callback was invoked there is no result, and every poll
\* returned Pending.
C15_NoSynthesizedResult ==
    /\ (polled.p = "Ready" \/ received # {} \/ state.result # NoOutcome) =>
           resolveCount >= 1
    /\ (resolveCount = 0 /\ source # "none") =>
           (polled \in {NotPolled, Pending})
    /\ Cardinality(received) <= resolveCount

\* The handle was registered twice while no callback had run, and the poll
\* still reports Pending.
C15_Witness ==
    /\ resolveCount = 0
    /\ polled = Pending
    /\ pollCheck.waker = "w2"
    /\ overwritten = {"w1"}

\* C16: whenever no operation on the state is in progress, a stored result
\* and a stored wake handle do not coexist.
C16_ResultExcludesWaker ==
    state.result # NoOutcome => state.waker = NoWaker

\* A resolve stored a result and took the handle the poll had registered.
C16_Witness ==
    /\ state.result # NoOutcome
    /\ state.waker = NoWaker
    /\ pollCheck.got = Pending
    /\ wakes[pollCheck.waker] = 1

(* ---------------------------------------------------------------------- *)
(* Faults: aborted tasks and failing resolve calls                         *)
(* ---------------------------------------------------------------------- *)

\* C17: for a task dropped before its match, neither function was called or
\* enqueued, its promise stays pending, and a Promise<T> subscribed to that
\* promise has no result and never returned Ready.
C17_AbortedStaysPending ==
    \A t \in aborted :
        /\ delivered[t] = <<>>
        /\ invoked[t] = <<>>
        /\ QueuedFor(t) = {}
        /\ \A i \in DOMAIN enqueued : enqueued[i] # t
        /\ promise[t].st = "pending"
        /\ ~ENABLED Lock(t) /\ ~ENABLED Deliver(t) /\ ~ENABLED DeliverFailing(t)
        /\ source = t =>
               /\ state.result = NoOutcome
               /\ resolveCount = 0
               /\ received = {}
               /\ polled \in {NotPolled, Pending}

\* A was dropped while a Promise<T> awaits its promise; B ran to its end and
\* the job queue is drained, yet the awaitable is still pending.
C17_Witness ==
    /\ "A" \in aborted
    /\ source = "A"
    /\ polled = Pending
    /\ Done("B")
    /\ promise["B"].st # "pending"
    /\ jobs = <<>>

\* C18: when the engine call of an immediate resolve fails, the failure is
\* logged once; the task made that one call only, holds no handle, left the
\* promise as it was, and is either about to release the runtime lock it
\* holds (which it can always do) or has ended with the lock released.
C18_FailedCallOnlyLogged ==
    \A t \in Tasks :
        logged[t] > 0 =>
            /\ strategy = "immediate"
            /\ logged[t] = 1
            /\ Len(delivered[t]) = 1
            /\ invoked[t] = delivered[t]
            /\ handles[t] = {}
            /\ promise[t].st = "pending"
            /\ \/ AtStep(t, "unlock") /\ rt_lock = t /\ ENABLED Unlock(t)
               \/ Done(t) /\ rt_lock # t

\* A's resolve call failed and was logged; A ended and released the lock.
C18_Witness ==
    /\ logged["A"] = 1
    /\ invoked["A"] = <<"then">>
    /\ Done("A")
    /\ rt_lock = "free"

\* The function that does not match the outcome of task t.
Unmatched(t) == IF task[t].output.tag = "Ok" THEN "catch" ELSE "then"

\* C19: a spawned task holds both persisted handles until its match; past
\* the match it holds none, the function that does not match the outcome
\* was never called or enqueued, and the matching one was passed to resolve
\* once; a task that ended or was dropped holds none.
C19_HandleLifetime ==
    \A t \in Tasks :
        /\ task[t].pc = 0 => handles[t] = {}
        /\ (t \notin aborted /\ task[t].pc > 0 /\ ~PastStep(t, "deliver")) =>
               /\ handles[t] = {"then", "catch"}
               /\ delivered[t] = <<>>
        /\ PastStep(t, "deliver") =>
               /\ handles[t] = {}
               /\ Len(delivered[t]) = 1
               /\ delivered[t][1] # Unmatched(t)
               /\ \A i \in DOMAIN invoked[t] : invoked[t][i] # Unmatched(t)
               /\ \A i \in QueuedFor(t) : jobs[i].func # Unmatched(t)
        /\ (Done(t) \/ t \in aborted) => handles[t] = {}

\* A ended after an Err outcome, having called reject only, and holds no
\* handle; B's computation is pending and B holds both.
C19_Witness ==
    /\ Done("A")
    /\ task["A"].output.tag = "Err"
    /\ invoked["A"] = <<"catch">>
    /\ handles["A"] = {}
    /\ AtStep("B", "await")
    /\ handles["B"] = {"then", "catch"}

(* ---------------------------------------------------------------------- *)
(* Locking                                                                 *)
(* ---------------------------------------------------------------------- *)

\* After a resolve, and until a poll returned Ready, the result is stored
\* for the next poll, and the handle the last Pending poll registered is
\* scheduled.
NoLostWake ==
    (resolveCount >= 1 /\ received = {}) =>
        /\ state.result # NoOutcome
        /\ pollCheck.got = Pending =>
               /\ wakes[pollCheck.waker] >= 1
               /\ pollCheck.waker \in scheduled

\* C20: no thread takes the engine lock while it holds the state lock; a
\* resolve leaves the result for the next poll and has woken the handle
\* registered last; and under fair scheduling a Promise<T> whose callback
\* was invoked eventually returns Ready.
C20_NoLostWakeNoDeadlock ==
    /\ [](<<"state", "engine">> \notin lockOrder)
    /\ [](st_lock = "host" => rt_lock = "host")
    /\ []NoLostWake
    /\ (caller # NoCaller) ~> (received # {})

\* A callback took the state lock under the engine lock and woke the handle
\* the poll had registered, and the next poll returned Ready.
C20_Witness ==
    /\ <<"engine", "state">> \in lockOrder
    /\ overwritten = {}
    /\ pollCheck.waker = "w1"
    /\ wakes["w1"] = 1
    /\ resolveCount = 1
    /\ polled.p = "Ready"
    /\ poller = NoPoll

====
